---- MODULE Spec2Model ----
(***************************************************************************)
(* uwsgiconf: the option store of a Section and the mutation primitive     *)
(* OptionsGroup._set (src/uwsgiconf/base.py), the option-group setters     *)
(* built on it (src/uwsgiconf/options), Section derivation and             *)
(* Configuration.format.                                                   *)
(***************************************************************************)
EXTENDS Integers, Sequences, FiniteSets, TLC

VARIABLES
    opts,     \* section -> its _opts: the ordered dict, a sequence of entries [k, v]
    alive,    \* the Sections constructed so far
    parent,   \* section -> the Section it was derived from, "" when none
    embedded, \* section -> its embedded_plugins: plugins taken as already loaded
    heap,     \* the list objects: reference -> sequence of elements
    nk,       \* OptionKey objects constructed so far (object identities)
    err,      \* the exception the last call raised, "" when it returned
    last,     \* the last call: its operation and arguments
    pre,      \* opts and heap as they were before the last call
    calls,    \* calls made so far
    members,  \* the members of the Configuration
    fmt,      \* the outcome of the last Configuration.format()
    options_objects, \* section -> its _options_objects: class name -> group instance
    objects,  \* the option-group instances constructed so far
    got,      \* what the last expression returned
    registered,       \* the signal numbers registered in uWSGI
    signals,          \* the Signal objects constructed so far
    registry_signals, \* signals.registry_signals
    offloaded_functions, \* mules.__offloaded_functions: function name -> function
    wrappers, \* the wrappers mule_offload returned so far
    messages, \* the mule messages sent and not yet delivered
    runs,     \* the function runs the mule message hook made
    registered_routes \* history: the directives register_route was given, in call order

\* the option groups of the Sections
groups == <<options_objects, objects>>

\* the uWSGI signals
signalling == <<registered, signals, registry_signals>>

\* the mules
mules == <<offloaded_functions, wrappers, messages, runs>>

\* the state outside the option stores
runtime == <<groups, got, signalling, mules, registered_routes>>

vars == <<opts, alive, parent, embedded, heap, nk, err, last, pre, calls, members, fmt,
          options_objects, objects, got, registered, signals, registry_signals,
          offloaded_functions, wrappers, messages, runs, registered_routes>>

(***************************************************************************)
(* Bounds.                                                                 *)
(***************************************************************************)
MaxCalls == 3
MaxPriority == 2
MaxCondCalls == 2
MaxPluginCalls == 2
MaxGroupCalls == 2
MaxDeriveCalls == 3
MaxMembers == 3

(***************************************************************************)
(* Python values.  A list held by a store is an object of the heap (Ref);  *)
(* a list or tuple passed as an argument is a literal.                     *)
(***************************************************************************)
None == [t |-> "none"]
Bool(b) == [t |-> "bool", b |-> b]
PyInt(n) == [t |-> "int", n |-> n]
Str(s) == [t |-> "str", s |-> s]
List(items) == [t |-> "list", items |-> items]
Tuple(items) == [t |-> "tuple", items |-> items]
PV(id) == [t |-> "pv", id |-> id]
Group(name) == [t |-> "group", name |-> name]
Ref(r) == [t |-> "ref", r |-> r]

\* Python truth value testing, as `if value:` and `if condition:` apply it.
Truthy(v) ==
    CASE v.t = "none" -> FALSE
      [] v.t = "bool" -> v.b
      [] v.t = "int" -> v.n # 0
      [] v.t = "str" -> v.s # ""
      [] v.t \in {"list", "tuple"} -> v.items # <<>>
      [] OTHER -> TRUE

(***************************************************************************)
(* OptionKey: a holder of a string.  The class defines neither __eq__ nor  *)
(* __hash__, so a dict compares two OptionKey objects by identity.         *)
(***************************************************************************)
OptionKey(id, key) == [id |-> id, key |-> key]

\* str(key): OptionKey.__str__
KeyStr(k) == k.key

\* OptionKey.swap
swapNever(k, new_key) == k

\* OptionKey.swap
swap(k, new_key) == IF Truthy(new_key) THEN [k EXCEPT !.key = new_key.s] ELSE k

KeyEqByString(k1, k2) == k1.key = k2.key

\* The equality (and hash) a dict uses for OptionKey objects.
KeyEq(k1, k2) == k1.id = k2.id

(***************************************************************************)
(* The ordered dict: a sequence of entries [k |-> OptionKey, v |-> value]. *)
(***************************************************************************)
Find(d, k) ==
    IF \E i \in 1..Len(d) : KeyEq(d[i].k, k)
    THEN CHOOSE i \in 1..Len(d) : KeyEq(d[i].k, k)
    ELSE 0

\* d[k] = v: an existing entry keeps its key object and its position.
DictSet(d, k, v) ==
    IF Find(d, k) = 0 THEN Append(d, [k |-> k, v |-> v])
    ELSE [d EXCEPT ![Find(d, k)].v = v]

\* d without the entry of k.
DictRemove(d, k) ==
    [i \in 1..(Len(d) - 1) |-> IF i < Find(d, k) THEN d[i] ELSE d[i + 1]]

RECURSIVE DictUpdate(_, _)
\* d.update(other)
DictUpdate(d, other) ==
    IF other = <<>> THEN d
    ELSE DictUpdate(DictSet(d, Head(other).k, Head(other).v), Tail(other))

(***************************************************************************)
(* ParametrizedValue.  The instances a caller can pass: class attributes   *)
(* (name, alias, opt_key, plugin, separators), args, and the _opts the     *)
(* instance filled through its own _set (keys 1.., lists in the heap).     *)
(***************************************************************************)
ParametrizedValueDefaults ==
    [name |-> "act", args |-> <<Str("x")>>, alias |-> None, args_joiner |-> " ",
     name_separator |-> ":", name_separator_strip |-> FALSE, opt_key |-> None,
     plugin |-> Bool(FALSE), opts |-> <<>>]

ParametrizedValues ==
    << ParametrizedValueDefaults,
       [ParametrizedValueDefaults EXCEPT !.name = "log", !.plugin = Str("syslog"),
                                         !.args = <<Str("y"), None>>],
       [ParametrizedValueDefaults EXCEPT !.opt_key = Str("rk"), !.args = <<Str("z")>>,
                                         !.alias = Str("al")],
       [ParametrizedValueDefaults EXCEPT !.name = "rtr", !.args = <<>>,
                                         !.name_separator_strip = TRUE,
           !.opts = << [k |-> OptionKey(1, "sub"), v |-> Ref(1)],
                       [k |-> OptionKey(2, "sub2"), v |-> Str("s2")] >>] >>

\* The list objects the instances above hold in their _opts.
ParametrizedValueHeap == << <<Str("s1")>> >>

\* The OptionKey objects the instances above made.
ParametrizedValueKeys ==
    Cardinality({e.k.id : e \in UNION {{pv.opts[i] : i \in 1..Len(pv.opts)} :
                                        pv \in {ParametrizedValues[j] : j \in 1..Len(ParametrizedValues)}}})

RECURSIVE Concat(_)
\* the string made of the tokens in order
Concat(toks) == IF toks = <<>> THEN "" ELSE Head(toks) \o Concat(Tail(toks))

RECURSIVE Join(_, _)
\* joiner.join(strs), as tokens
Join(strs, joiner) ==
    IF strs = <<>> THEN <<>>
    ELSE IF Len(strs) = 1 THEN <<Head(strs)>>
    ELSE <<Head(strs), joiner>> \o Join(Tail(strs), joiner)

RECURSIVE LStrip(_, _)
LStrip(toks, chars) ==
    IF toks # <<>> /\ Head(toks) \in chars THEN LStrip(Tail(toks), chars) ELSE toks

RECURSIVE RStrip(_, _)
RStrip(toks, chars) ==
    IF toks # <<>> /\ toks[Len(toks)] \in chars
    THEN RStrip(SubSeq(toks, 1, Len(toks) - 1), chars) ELSE toks

\* str.strip over tokens; empty tokens carry no characters
Strip(toks, chars) == RStrip(LStrip(toks, chars \cup {""}), chars \cup {""})

\* ParametrizedValue.__str__
PVStr(pv) ==
    LET args == SelectSeq(pv.args, LAMBDA a : a # None)
        strs == [i \in 1..Len(args) |-> args[i].s]
        named == (IF ~Truthy(pv.opt_key) THEN <<pv.name, pv.name_separator>> ELSE <<>>)
                 \o Join(strs, pv.args_joiner)
        aliased == IF Truthy(pv.alias) THEN <<pv.alias.s, " ">> \o named ELSE named
        stripped == Strip(aliased, {" "})
    IN Concat(IF pv.name_separator_strip THEN Strip(stripped, {pv.name_separator})
              ELSE stripped)

\* str(value) for the values a tuple holds
PyStr(v) ==
    CASE v.t = "pv" -> PVStr(ParametrizedValues[v.id])
      [] v.t = "str" -> v.s
      [] v.t = "group" -> v.name
      [] v.t = "none" -> "None"
      [] OTHER -> "?"

(***************************************************************************)
(* OptionsGroup._set.  It works on st = [opts, heap, nk, err, embedded]:    *)
(* the _opts of the group's Section, the heap, the OptionKey count, the    *)
(* exception, the Section's embedded plugins.  self is the group:          *)
(* [name, plugin]; a holds the arguments.                                  *)
(***************************************************************************)
SetDefaults ==
    [key |-> "", value |-> None, condition |-> Bool(TRUE), cast |-> "none",
     multi |-> FALSE, plugin |-> None, priority |-> None]

\* OptionsGroup's class attributes; a Section is such a group.
SectionGroup == [name |-> "uwsgi", plugin |-> Bool(FALSE)]

\* a group that declares plugin = True
PluginGroup == [name |-> "python", plugin |-> Bool(TRUE)]

Raise(st, e) == [st EXCEPT !.err = e]

\* utils.listify
listify(src) == IF src.t = "list" THEN src.items ELSE <<src>>

RECURSIVE _set(_, _, _)

\* Section.set_plugins_params(plugins=...): the nested mutation that registers
\* the plugin name under the multi-valued key `plugin`, unless the Section
\* takes the plugin as embedded.
set_plugins_params(st, plugins) ==
    IF plugins \in st.embedded THEN st
    ELSE _set(st, SectionGroup,
              [SetDefaults EXCEPT !.key = "plugin", !.value = plugins, !.multi = TRUE])

\* _set.set_plugin
set_plugin(st, plugin) == set_plugins_params(st, plugin)

handle_plugin_requiredNoPlugin(c, val) ==
    IF val.t # "pv" \/ c.st.err # "" THEN c
    ELSE LET pv == ParametrizedValues[val.id]
             key1 == swap(c.key, IF Truthy(pv.opt_key) THEN pv.opt_key
                                 ELSE Str(KeyStr(c.key)))
         IN [st |-> IF pv.opts # <<>>
                    THEN [c.st EXCEPT !.opts = DictUpdate(@, pv.opts)] ELSE c.st,
             key |-> key1]

\* _set.handle_plugin_required, on c = [st, key]
handle_plugin_required(c, val) ==
    IF val.t # "pv" \/ c.st.err # "" THEN c
    ELSE LET pv == ParametrizedValues[val.id]
             key1 == swap(c.key, IF Truthy(pv.opt_key) THEN pv.opt_key
                                 ELSE Str(KeyStr(c.key)))
             st1 == IF Truthy(pv.plugin) THEN set_plugin(c.st, pv.plugin) ELSE c.st
             st2 == IF pv.opts # <<>> /\ st1.err = ""
                    THEN [st1 EXCEPT !.opts = DictUpdate(@, pv.opts)] ELSE st1
         IN [st |-> st2, key |-> key1]

RECURSIVE HandleEach(_, _)
\* handle_plugin_required over the values in order
HandleEach(c, vals) ==
    IF vals = <<>> THEN c
    ELSE HandleEach(handle_plugin_required(c, Head(vals)), Tail(vals))

RECURSIVE PriorityLoop(_, _, _, _, _, _)
\* the loop of handle_priority over opts_copy.items(), from position pos
PriorityLoop(acc, items, pos, key, value, priority) ==
    IF items = <<>> THEN acc
    ELSE LET acc1 == IF priority = pos THEN DictSet(acc, key, value) ELSE acc
         IN PriorityLoop(DictSet(acc1, Head(items).k, Head(items).v), Tail(items),
                         pos + 1, key, value, priority)

\* the list object or value a store is about to hold: a list is a heap object
Box(h, v) == IF v.t = "list" THEN Ref(Len(h) + 1) ELSE v

\* the heap once that list is allocated
BoxHeap(h, v) == IF v.t = "list" THEN Append(h, v.items) ELSE h

\* _set.handle_priority, on c = [st, key]; value is the list `values` when
\* use_list.  Returns the state and whether it handled the storing.
handle_priority(c, value, use_list, priority) ==
    IF priority = None THEN [st |-> c.st, handled |-> FALSE]
    ELSE
      LET i == Find(c.st.opts, c.key)
          opts_copy == IF i = 0 THEN c.st.opts ELSE DictRemove(c.st.opts, c.key)
          placed == priority.n >= 0 /\ priority.n < Len(opts_copy)
      IN IF use_list /\ i # 0 /\ c.st.opts[i].v.t # "ref"
         THEN \* existing_value.extend on a value that is no list; opts is cleared
              [st |-> Raise([c.st EXCEPT !.opts = <<>>], "AttributeError"),
               handled |-> TRUE]
         ELSE
           LET heap1 == IF use_list /\ i # 0
                        THEN [c.st.heap EXCEPT ![c.st.opts[i].v.r] = @ \o value]
                        ELSE c.st.heap
               new == IF use_list
                      THEN (IF i # 0 THEN c.st.opts[i].v ELSE Box(heap1, List(value)))
                      ELSE Box(heap1, value)
               heap2 == IF placed /\ new.t = "ref" /\ new.r > Len(heap1)
                        THEN Append(heap1, IF use_list THEN value ELSE value.items)
                        ELSE heap1
           IN [st |-> [c.st EXCEPT
                         !.opts = PriorityLoop(<<>>, opts_copy, 0, c.key, new, priority.n),
                         !.heap = heap2],
               handled |-> TRUE]

DeleteRaising(st, key) ==
    IF Find(st.opts, key) = 0 THEN Raise(st, "KeyError")
    ELSE [st EXCEPT !.opts = DictRemove(@, key)]

\* try: del opts[key] / except KeyError: pass
Delete(st, key) ==
    IF Find(st.opts, key) = 0 THEN st
    ELSE [st EXCEPT !.opts = DictRemove(@, key)]

\* opts.setdefault(key, []).extend(values)
SetDefaultExtend(st, key, values) ==
    LET i == Find(st.opts, key)
    IN IF i = 0
       THEN [st EXCEPT !.opts = Append(@, [k |-> key, v |-> Ref(Len(st.heap) + 1)]),
                       !.heap = Append(@, values)]
       ELSE IF st.opts[i].v.t # "ref" THEN Raise(st, "AttributeError")
       ELSE [st EXCEPT !.heap[st.opts[i].v.r] = @ \o values]

\* opts[key] = value
Assign(st, key, value) ==
    [st EXCEPT !.opts = DictSet(@, key, Box(st.heap, value)),
               !.heap = BoxHeap(@, value)]

ResolveConditionSkipped(a) == a.condition

\* condition = value is not None, when condition is True
ResolveCondition(a) ==
    IF a.condition = Bool(TRUE) THEN Bool(a.value # None) ELSE a.condition

ConditionHoldsUnlessFalse(condition) == condition # Bool(FALSE)

\* if condition is None or condition:
ConditionHolds(condition) == condition = None \/ Truthy(condition)

\* the end of _set: the priority placement, else the store under c.key
\* (value is the list `values` when use_list)
StoreUnlessHandled(hp, c, value, use_list) ==
    IF hp.handled THEN hp.st
    ELSE IF use_list THEN SetDefaultExtend(c.st, c.key, value)
    ELSE Assign(c.st, c.key, value)

Store(c, value, use_list, priority) ==
    IF c.st.err # "" THEN c.st
    ELSE StoreUnlessHandled(handle_priority(c, value, use_list, priority),
                            c, value, use_list)

\* if multi: values = listify(value), each handled, then stored as a list;
\* else the value handled and stored
StoreValue(c, value, a) ==
    IF a.multi
    THEN Store(HandleEach(c, listify(value)), listify(value), TRUE, a.priority)
    ELSE Store(handle_plugin_required(c, value), value, FALSE, a.priority)

\* if isinstance(value, tuple): each item handled, the value joined
HandleTuple(c, value, a) ==
    IF value.t = "tuple"
    THEN StoreValue(HandleEach(c, value.items),
                    Str(Concat(Join([i \in 1..Len(value.items) |->
                                        PyStr(value.items[i])], " "))),
                    a)
    ELSE StoreValue(c, value, a)

\* if self.plugin is True: set_plugin(self)
GroupPlugin(st, self) ==
    IF self.plugin = Bool(TRUE) THEN set_plugin(st, Group(self.name)) ELSE st

\* if plugin: set_plugin(plugin)
OptionPlugin(st, plugin) ==
    IF Truthy(plugin) THEN set_plugin(st, plugin) ELSE st

\* OptionsGroup._set, on st with the key object key = OptionKey(key) created
SetWithKey(st, key, self, a) ==
    IF ~ConditionHolds(ResolveCondition(a)) THEN st
    ELSE IF a.cast = "bool" /\ ~Truthy(a.value) THEN Delete(st, key)
    ELSE HandleTuple([st |-> OptionPlugin(GroupPlugin(st, self), a.plugin), key |-> key],
                     IF a.cast = "bool" THEN Str("true") ELSE a.value, a)

_set(st, self, a) ==
    IF st.err # "" THEN st
    ELSE SetWithKey([st EXCEPT !.nk = @ + 1], OptionKey(st.nk + 1, a.key), self, a)

(***************************************************************************)
(* The state machine.  Every call runs to completion (the engine is        *)
(* single-threaded and synchronous); one action is one call.               *)
(***************************************************************************)
Sections == {"A", "B"}

Keys == {"k1", "k2"}

\* the option-group classes a Section declares through Options descriptors
GroupTypes == {"Applications", "Routing"}

\* the state a call on the Section sec starts from
St(sec) ==
    [opts |-> opts[sec], heap |-> heap, nk |-> nk, err |-> "",
     embedded |-> embedded[sec]]

\* the call `op` with arguments a on sec ended in state r
Commit(op, sec, self, a, r) ==
    /\ calls < MaxCalls
    /\ sec \in alive
    /\ opts' = [opts EXCEPT ![sec] = r.opts]
    /\ heap' = r.heap
    /\ nk' = r.nk
    /\ err' = r.err
    /\ last' = [op |-> op, sec |-> sec, self |-> self, a |-> a]
    /\ pre' = [opts |-> opts, heap |-> heap]
    /\ calls' = calls + 1
    /\ UNCHANGED <<alive, parent, embedded, members, fmt>>
    /\ UNCHANGED runtime

\* group._set(key, value, ...) on the Section sec
Set(sec, self, a) == Commit("_set", sec, self, a, _set(St(sec), self, a))

\* the functions a program defines: two modules each define a `task`
Funcs == {[id |-> 1, name |-> "task"], [id |-> 2, name |-> "task"],
          [id |-> 3, name |-> "other"]}

FuncNames == {f.name : f \in Funcs}

\* A = Section(embedded_plugins=e), in a process that decorated no function
\* and constructed no Signal
InitBase(e) ==
    /\ opts = [s \in Sections |-> <<>>]
    /\ alive = {"A"}
    /\ parent = [s \in Sections |-> ""]
    /\ embedded = [s \in Sections |-> IF s = "A" THEN e ELSE {}]
    /\ heap = ParametrizedValueHeap
    /\ nk = ParametrizedValueKeys
    /\ err = ""
    /\ last = [op |-> "init"]
    /\ pre = [opts |-> [s \in Sections |-> <<>>], heap |-> ParametrizedValueHeap]
    /\ calls = 0
    /\ members = <<>>
    /\ fmt = ""
    /\ options_objects = [s \in Sections |-> [t \in GroupTypes |-> 0]]
    /\ objects = <<>>
    /\ got = None
    /\ signals = <<>>
    /\ registry_signals = <<>>
    /\ offloaded_functions = [n \in FuncNames |-> 0]
    /\ wrappers = <<>>
    /\ messages = <<>>
    /\ runs = <<>>
    /\ registered_routes = <<>>

\* A = Section(embedded_plugins=e), no signal registered in uWSGI
InitWith(e) == InitBase(e) /\ registered = {}

\* A = Section()
Init == InitWith({})

\* _set(key, value)
SetValue ==
    /\ calls < MaxCalls
    /\ \E key \in Keys, v \in {"a", "b"} :
        Set("A", SectionGroup, [SetDefaults EXCEPT !.key = key, !.value = Str(v)])

\* _set(key, flag, cast=bool)
SetFlag ==
    /\ calls < MaxCalls
    /\ \E key \in Keys, b \in BOOLEAN :
        Set("A", SectionGroup,
            [SetDefaults EXCEPT !.key = key, !.value = Bool(b), !.cast = "bool"])

\* _set(key, value, multi=True)
SetMulti ==
    /\ calls < MaxCalls
    /\ \E key \in Keys, v \in {Str("a"), List(<<Str("b"), Str("c")>>)} :
        Set("A", SectionGroup,
            [SetDefaults EXCEPT !.key = key, !.value = v, !.multi = TRUE])

\* _set(key, value, multi=..., priority=p)
SetPriority ==
    /\ calls < MaxCalls
    /\ \E key \in Keys, m \in BOOLEAN, p \in 0..MaxPriority :
        Set("A", SectionGroup,
            [SetDefaults EXCEPT !.key = key, !.value = Str("p"), !.multi = m,
                                !.priority = PyInt(p)])

Next == SetValue \/ SetFlag \/ SetMulti \/ SetPriority

Spec == Init /\ [][Next]_vars

(***************************************************************************)
(* What a store holds, with its lists read from the heap.                  *)
(***************************************************************************)
Resolve(h, v) == IF v.t = "ref" THEN List(h[v.r]) ELSE v

Content(d, h) == [i \in 1..Len(d) |-> [key |-> KeyStr(d[i].k), v |-> Resolve(h, d[i].v)]]

\* the positions of the entries whose key reads `key`
Positions(d, key) == {i \in 1..Len(d) : KeyStr(d[i].k) = key}

\* the entries whose key does not read `key`, in order
Others(d, h, key) == SelectSeq(Content(d, h), LAMBDA e : e.key # key)

(***************************************************************************)
(* Claims about the store primitive, checked under Spec.                   *)
(***************************************************************************)
\* the last call was a _set whose resolved condition held
Stored == last.op = "_set" /\ ConditionHolds(ResolveCondition(last.a))

\* the last call was _set(key, flag, cast=bool) with a non-null flag
FlagCall(l) ==
    /\ l.op = "_set"
    /\ l.a.cast = "bool"
    /\ l.a.condition = Bool(TRUE)
    /\ l.a.value # None

\* C1: the Option Store holds at most one entry per key string: no two
\* entries of a store have keys with the same string form.
C1_OneEntryPerKeyString ==
    \A s \in alive : \A i, j \in 1..Len(opts[s]) :
        i # j => KeyStr(opts[s][i].k) # KeyStr(opts[s][j].k)

\* C2: setting an absent boolean flag with a truthy value and then with a
\* falsy value returns the store to the state before the first call.
C2_FlagSetThenUnsetRestores ==
    [][(/\ FlagCall(last) /\ Truthy(last.a.value)
        /\ Positions(pre.opts[last.sec], last.a.key) = {}
        /\ FlagCall(last') /\ ~Truthy(last'.a.value)
        /\ last'.a.key = last.a.key /\ last'.sec = last.sec)
       => Content(opts'[last.sec], heap') = Content(pre.opts[last.sec], pre.heap)]_vars

\* C3: un-setting a boolean flag whose key is absent from the store raises
\* no error and leaves the store unchanged.
C3_UnsetAbsentFlagIsNoOp ==
    (/\ FlagCall(last) /\ ~Truthy(last.a.value)
     /\ Positions(pre.opts[last.sec], last.a.key) = {})
    => /\ err = ""
       /\ opts = pre.opts
       /\ heap = pre.heap

\* an unset of an absent flag on a store that holds other entries
C3_Witness ==
    /\ FlagCall(last) /\ ~Truthy(last.a.value)
    /\ Positions(pre.opts[last.sec], last.a.key) = {}
    /\ pre.opts[last.sec] # <<>>
    /\ opts = pre.opts

\* C6: a _set(key, v, multi=True) call without priority leaves one entry for
\* key, whose list is the list held before followed by the values passed.
C6_MultiAppendsToOneEntry ==
    (/\ Stored /\ last.a.multi /\ last.a.priority = None /\ last.a.cast = "none"
     /\ last.a.value.t \in {"str", "list"}
     /\ \A i \in Positions(pre.opts[last.sec], last.a.key) :
            pre.opts[last.sec][i].v.t = "ref"
     /\ Cardinality(Positions(pre.opts[last.sec], last.a.key)) <= 1)
    => LET before == pre.opts[last.sec]
           old == IF Positions(before, last.a.key) = {} THEN <<>>
                  ELSE pre.heap[before[CHOOSE i \in Positions(before, last.a.key) : TRUE].v.r]
           now == Content(opts[last.sec], heap)
       IN /\ Cardinality(Positions(opts[last.sec], last.a.key)) = 1
          /\ \A i \in Positions(opts[last.sec], last.a.key) :
                 now[i].v = List(old \o listify(last.a.value))

\* C7: _set(key, value, priority=p) with p from 0 to the number n of other
\* entries leaves key at zero-based position p, the other entries kept with
\* their values and relative order.
C7_PriorityPlacesKeyAtPosition ==
    (/\ Stored /\ last.a.priority # None /\ last.a.cast = "none"
     /\ last.a.priority.n \in 0..Len(Others(pre.opts[last.sec], pre.heap, last.a.key)))
    => /\ err = ""
       /\ Positions(opts[last.sec], last.a.key) = {last.a.priority.n + 1}
       /\ Others(opts[last.sec], heap, last.a.key)
            = Others(pre.opts[last.sec], pre.heap, last.a.key)

(***************************************************************************)
(* _set with an explicit condition (SpecCond).                             *)
(***************************************************************************)
\* the conditions that are false or empty, and None
EmptyConditions == {Bool(FALSE), PyInt(0), Str(""), List(<<>>)}

\* _set(key, value, condition=c, cast=..., multi=..., plugin=..., priority=...)
\* by a plugin-backed group
SetConditional ==
    /\ calls < MaxCondCalls
    /\ \E c \in EmptyConditions \cup {None}, v \in {Str("a"), PV(2)},
          cast \in {"none", "bool"}, m \in BOOLEAN, pl \in {None, Str("geoip")},
          pr \in {None, PyInt(0)} :
        Set("A", PluginGroup,
            [key |-> "k1", value |-> v, condition |-> c, cast |-> cast,
             multi |-> m, plugin |-> pl, priority |-> pr])

\* _set(key, value) to fill the store
SetSeed == calls < MaxCondCalls /\ SetValue

NextCond == SetSeed \/ SetConditional

SpecCond == Init /\ [][NextCond]_vars

\* C5 as stated: a _set call whose explicit condition is False, None, 0, ""
\* or [] performs no mutation.
C5_EmptyConditionNoMutation ==
    (last.op = "_set" /\ last.a.condition \in EmptyConditions \cup {None})
    => (err = "" /\ opts = pre.opts /\ heap = pre.heap)

\* C5 amended: a _set call whose explicit condition is False, 0, "" or []
\* performs no mutation and registers no plugin; None is not such a condition.
C5_FalsyConditionNoMutation ==
    (last.op = "_set" /\ last.a.condition \in EmptyConditions)
    => (err = "" /\ opts = pre.opts /\ heap = pre.heap)

\* a call with an empty condition, a value, a plugin and a priority, made by a
\* plugin-backed group on a store that holds an entry
C5_Witness ==
    /\ last.op = "_set" /\ last.a.condition = PyInt(0)
    /\ last.a.value = PV(2) /\ last.a.plugin = Str("geoip") /\ last.a.priority = PyInt(0)
    /\ last.self = PluginGroup
    /\ pre.opts["A"] # <<>>
    /\ opts = pre.opts

(***************************************************************************)
(* Automatic plugin activation (SpecPlugin).                               *)
(***************************************************************************)
PluginValues ==
    {Bool(TRUE), PV(2), Tuple(<<PV(2), Str("a")>>), List(<<Str("a"), PV(2)>>)}

\* _set(key, value, cast=..., multi=..., plugin=..., priority=...) by a plain
\* or a plugin-backed group
SetWithPlugin ==
    /\ calls < MaxPluginCalls
    /\ \E v \in PluginValues, m \in BOOLEAN, pl \in {None, Str("geoip")},
          pr \in {None, PyInt(0)}, self \in {SectionGroup, PluginGroup} :
        Set("A", self, [SetDefaults EXCEPT !.key = "k1", !.value = v,
                          !.cast = IF v.t = "bool" THEN "bool" ELSE "none",
                          !.multi = m, !.plugin = pl, !.priority = pr])

NextPlugin == SetWithPlugin

\* A = Section() or A = Section(embedded_plugins=[...])
InitPlugin == \E e \in {{}, {Str("syslog")}} : InitWith(e)

SpecPlugin == InitPlugin /\ [][NextPlugin]_vars

\* the plugin a value carries: a ParametrizedValue with a plugin name
CarriedPlugins(v) ==
    IF v.t = "pv" /\ Truthy(ParametrizedValues[v.id].plugin)
    THEN {ParametrizedValues[v.id].plugin} ELSE {}

\* the plugins the call must register
RequiredPlugins(self, a) ==
    (IF self.plugin = Bool(TRUE) THEN {Group(self.name)} ELSE {})
    \cup (IF Truthy(a.plugin) THEN {a.plugin} ELSE {})
    \cup CarriedPlugins(a.value)
    \cup (IF a.value.t = "tuple" \/ (a.value.t = "list" /\ a.multi)
          THEN UNION {CarriedPlugins(a.value.items[i]) : i \in 1..Len(a.value.items)}
          ELSE {})

\* the values registered under the key `plugin`
RegisteredPlugins(d, h) ==
    UNION {{h[d[i].v.r][j] : j \in 1..Len(h[d[i].v.r])} :
              i \in {n \in Positions(d, "plugin") : d[n].v.t = "ref"}}

OptionsGroupDefaults == [name |-> "", plugin |-> Bool(FALSE)]

RECURSIVE SetEach(_, _, _)
\* the _set calls of a setter, one after the other
SetEach(st, self, args) ==
    IF args = <<>> THEN st
    ELSE SetEach(_set(st, self, Head(args)), self, Tail(args))

\* Applications.set_basic_params
Applications_set_basic_params(st, self, p) ==
    SetEach(st, self,
        <<[SetDefaults EXCEPT !.key = "need-app", !.value = p.exit_if_none, !.cast = "bool"],
          [SetDefaults EXCEPT !.key = "max-apps", !.value = p.max_per_worker],
          [SetDefaults EXCEPT !.key = "single-interpreter",
                              !.value = p.single_interpreter, !.cast = "bool"],
          [SetDefaults EXCEPT !.key = "no-default-app", !.value = p.no_default,
                              !.cast = "bool"]>>)

\* Applications.set_idle_params
Applications_set_idle_params(st, self, p) ==
    SetEach(st, self,
        <<[SetDefaults EXCEPT !.key = "idle", !.value = p.timeout],
          [SetDefaults EXCEPT !.key = "die-on-idle", !.value = p.exit, !.cast = "bool"]>>)

\* Routing.set_geoip_params
Routing_set_geoip_params(st, self, p) ==
    SetEach(st, self,
        <<[SetDefaults EXCEPT !.key = "geoip-country", !.value = p.db_country,
                              !.plugin = Str("geoip")],
          [SetDefaults EXCEPT !.key = "geoip-city", !.value = p.db_city,
                              !.plugin = Str("geoip")]>>)

Flags == {None, Bool(TRUE), Bool(FALSE)}

SetBasicParams ==
    /\ calls < MaxGroupCalls
    /\ \E e \in Flags, m \in {None, PyInt(2)}, s \in Flags, n \in Flags :
        LET p == [exit_if_none |-> e, max_per_worker |-> m,
                  single_interpreter |-> s, no_default |-> n]
        IN Commit("Applications.set_basic_params", "A", OptionsGroupDefaults, p,
                  Applications_set_basic_params(St("A"), OptionsGroupDefaults, p))

SetIdleParams ==
    /\ calls < MaxGroupCalls
    /\ \E t \in {None, PyInt(60)}, e \in Flags :
        LET p == [timeout |-> t, exit |-> e]
        IN Commit("Applications.set_idle_params", "A", OptionsGroupDefaults, p,
                  Applications_set_idle_params(St("A"), OptionsGroupDefaults, p))

SetGeoipParams ==
    /\ calls < MaxGroupCalls
    /\ \E c \in {None, Str("/country.dat")}, y \in {None, Str("/city.dat")} :
        LET p == [db_country |-> c, db_city |-> y]
        IN Commit("Routing.set_geoip_params", "A", OptionsGroupDefaults, p,
                  Routing_set_geoip_params(St("A"), OptionsGroupDefaults, p))

\* a setter of a group that declares plugin = True: self._set(key, value)
SetByPluginGroup ==
    /\ calls < MaxGroupCalls
    /\ \E v \in {None, Str("a")} :
        Set("A", PluginGroup, [SetDefaults EXCEPT !.key = "k1", !.value = v])

NextGroups == SetBasicParams \/ SetIdleParams \/ SetGeoipParams \/ SetByPluginGroup

SpecGroups == Init /\ [][NextGroups]_vars

GroupSetters ==
    {"Applications.set_basic_params", "Applications.set_idle_params",
     "Routing.set_geoip_params"}

\* the last call was a setter with every argument null
AllNullCall ==
    \/ last.op \in GroupSetters /\ \A f \in DOMAIN last.a : last.a[f] = None
    \/ last.op = "_set" /\ last.a.value = None /\ last.a.condition = Bool(TRUE)

RECURSIVE DeepCopy(_, _, _, _)
\* copy.deepcopy of the ordered dict d: new key objects, new list objects
DeepCopy(acc, d, h, n) ==
    IF d = <<>> THEN [opts |-> acc, heap |-> h, nk |-> n]
    ELSE LET e == Head(d)
             v == IF e.v.t = "ref" THEN Ref(Len(h) + 1) ELSE e.v
             h1 == IF e.v.t = "ref" THEN Append(h, h[e.v.r]) ELSE h
         IN DeepCopy(Append(acc, [k |-> OptionKey(n + 1, KeyStr(e.k)), v |-> v]),
                     Tail(d), h1, n + 1)

\* Section.derive_from(section): the new Section's store is an independent
\* copy of the store d
derive_from(d, h, n) == DeepCopy(<<>>, d, h, n)

\* B = Section.derive_from(A)
DeriveFrom ==
    /\ "B" \notin alive
    /\ LET r == derive_from(opts["A"], heap, nk)
       IN /\ opts' = [opts EXCEPT !["B"] = r.opts]
          /\ heap' = r.heap
          /\ nk' = r.nk
    /\ alive' = alive \cup {"B"}
    /\ parent' = [parent EXCEPT !["B"] = "A"]
    /\ embedded' = [embedded EXCEPT !["B"] = embedded["A"]]
    /\ err' = ""
    /\ last' = [op |-> "derive_from", sec |-> "B"]
    /\ pre' = [opts |-> opts, heap |-> heap]
    /\ UNCHANGED <<calls, members, fmt>>
    /\ UNCHANGED runtime

\* B = Section()
NewSection ==
    /\ "B" \notin alive
    /\ alive' = alive \cup {"B"}
    /\ opts' = [opts EXCEPT !["B"] = <<>>]
    /\ err' = ""
    /\ last' = [op |-> "Section", sec |-> "B"]
    /\ pre' = [opts |-> opts, heap |-> heap]
    /\ UNCHANGED <<parent, embedded, heap, nk, calls, members, fmt>>
    /\ UNCHANGED runtime

\* _set(key, value, multi=...) on either Section
SetOnEither ==
    /\ calls < MaxDeriveCalls
    /\ \E sec \in alive, key \in {"k1", "sub"}, v \in {Str("a"), PV(4)}, m \in BOOLEAN :
        Set(sec, SectionGroup, [SetDefaults EXCEPT !.key = key, !.value = v, !.multi = m])

\* _set(key, value, multi=True, priority=0) on either Section
SetPriorityOnEither ==
    /\ calls < MaxDeriveCalls
    /\ \E sec \in alive, key \in {"k1", "sub"} :
        Set(sec, SectionGroup, [SetDefaults EXCEPT !.key = key, !.value = Str("p"),
                                  !.multi = TRUE, !.priority = PyInt(0)])

NextDerive == DeriveFrom \/ NewSection \/ SetOnEither \/ SetPriorityOnEither

SpecDerive == Init /\ [][NextDerive]_vars

\* C9: a Section made by derive_from starts with a store equal to its
\* source's, and a setter call on one Section leaves the store of every other
\* Section, the contents of its lists included, as it was.
C9_SectionsIndependent ==
    /\ last.op = "derive_from"
         => /\ Content(opts["B"], heap) = Content(opts["A"], heap)
            /\ Content(opts["A"], heap) = Content(pre.opts["A"], pre.heap)
    /\ last.op = "_set"
         => \A s \in Sections \ {last.sec} :
                Content(opts[s], heap) = Content(pre.opts[s], pre.heap)

\* a multi-valued _set on the derived Section, under a key whose list both
\* stores hold
C9_Witness ==
    /\ last.op = "_set" /\ last.sec = "B" /\ parent["B"] = "A"
    /\ last.a.multi /\ last.a.key = "sub"
    /\ Positions(opts["A"], "sub") # {}
    /\ Content(opts["B"], heap) # Content(pre.opts["B"], pre.heap)
    /\ Content(opts["A"], heap) = Content(pre.opts["A"], pre.heap)

(***************************************************************************)
(* Configuration.format (SpecConf).                                        *)
(***************************************************************************)
\* a Section as a Configuration sees it: its name, None when unnamed
SectionNamed(name) == [t |-> "section", name |-> name]

AllSections(ms) == \A i \in 1..Len(ms) : ms[i].t = "section"

NamesDistinct(ms) ==
    \A i, j \in 1..Len(ms) : (i # j /\ ms[i].t = "section" /\ ms[j].t = "section")
                               => ms[i].name # ms[j].name

formatNamedOnly(ms) ==
    IF ~AllSections(ms) THEN "ConfigurationError: Section"
    ELSE IF \E i, j \in 1..Len(ms) : i # j /\ ms[i].name # None /\ ms[i].name = ms[j].name
         THEN "ConfigurationError: unique"
    ELSE "ok"

\* Configuration.format: the outcome
format(ms) ==
    IF ~AllSections(ms) THEN "ConfigurationError: Section"
    ELSE IF ~NamesDistinct(ms) THEN "ConfigurationError: unique"
    ELSE "ok"

MemberValues ==
    {SectionNamed(None), SectionNamed(Str("one")), SectionNamed(Str("another")),
     Str("some")}

\* Configuration([..., m])
AddMember ==
    /\ Len(members) < MaxMembers
    /\ \E m \in MemberValues : members' = Append(members, m)
    /\ last' = [op |-> "Configuration"]
    /\ UNCHANGED <<opts, alive, parent, embedded, heap, nk, err, pre, calls, fmt>>
    /\ UNCHANGED runtime

\* section.name = name
Rename ==
    /\ \E i \in 1..Len(members), name \in {Str("one"), Str("another")} :
        /\ members[i].t = "section"
        /\ members[i].name # name
        /\ members' = [members EXCEPT ![i].name = name]
    /\ last' = [op |-> "rename"]
    /\ UNCHANGED <<opts, alive, parent, embedded, heap, nk, err, pre, calls, fmt>>
    /\ UNCHANGED runtime

\* Configuration(members).format()
Format ==
    /\ members # <<>>
    /\ fmt' = format(members)
    /\ last' = [op |-> "format"]
    /\ UNCHANGED <<opts, alive, parent, embedded, heap, nk, err, pre, calls, members>>
    /\ UNCHANGED runtime

NextConf == AddMember \/ Rename \/ Format

SpecConf == Init /\ [][NextConf]_vars

\* C10: format() succeeds exactly when every member is a Section and no two
\* members share a name (two unnamed Sections share one); it raises the type
\* error when a member is no Section, the uniqueness error otherwise.
C10_FormatValidatesMembers ==
    last.op = "format"
    => /\ fmt = "ok" <=> (AllSections(members) /\ NamesDistinct(members))
       /\ ~AllSections(members) => fmt = "ConfigurationError: Section"
       /\ (AllSections(members) /\ ~NamesDistinct(members))
            => fmt = "ConfigurationError: unique"

\* format() raised the uniqueness error for two unnamed Sections
C10_Witness ==
    /\ last.op = "format"
    /\ fmt = "ConfigurationError: unique"
    /\ Len(members) = 2
    /\ members[1] = SectionNamed(None) /\ members[2] = SectionNamed(None)

(***************************************************************************)
(* Fallback and include linking (SpecLink).                                *)
(***************************************************************************)
MaxLinkCalls == 3

link_targetUnchecked(target) ==
    IF target.t = "section"
    THEN [err |-> "", value |-> Str(":" \o (IF target.name = None THEN "" ELSE target.name.s))]
    ELSE [err |-> "", value |-> target]

\* the reference a fallback or include directive stores for its target: the
\* path itself, or `:name` for a Section, which must be named
link_target(target) ==
    IF target.t = "section"
    THEN IF target.name = None THEN [err |-> "ConfigurationError", value |-> None]
         ELSE [err |-> "", value |-> Str(":" \o target.name.s)]
    ELSE [err |-> "", value |-> target]

\* Section.set_fallback(target)
set_fallback(st, target) ==
    LET t == link_target(target)
    IN IF t.err # "" THEN Raise(st, t.err)
       ELSE _set(st, SectionGroup,
                 [SetDefaults EXCEPT !.key = "fallback-config", !.value = t.value])

\* Section.include(target)
include(st, target) ==
    LET t == link_target(target)
    IN IF t.err # "" THEN Raise(st, t.err)
       ELSE _set(st, SectionGroup,
                 [SetDefaults EXCEPT !.key = "ini", !.value = t.value, !.multi = TRUE])

LinkTargets ==
    {Str("a/b.ini"), Str(":x"), SectionNamed(Str("here")), SectionNamed(None)}

SetFallback ==
    /\ calls < MaxLinkCalls
    /\ \E target \in LinkTargets :
        Commit("set_fallback", "A", SectionGroup, [target |-> target],
               set_fallback(St("A"), target))

Include ==
    /\ calls < MaxLinkCalls
    /\ \E target \in LinkTargets :
        Commit("include", "A", SectionGroup, [target |-> target],
               include(St("A"), target))

\* _set(key, value) to fill the store
SetLinkSeed == calls < MaxLinkCalls /\ SetValue

NextLink == SetFallback \/ Include \/ SetLinkSeed

SpecLink == Init /\ [][NextLink]_vars

\* the key a linking call stores under
LinkKey(op) == IF op = "set_fallback" THEN "fallback-config" ELSE "ini"

\* the store holds `value` under `key`: as the entry's value, or as the last
\* element of the entry's list
Holds(d, h, key, value) ==
    \E i \in Positions(d, key) :
        LET v == Resolve(h, d[i].v)
        IN \/ v = value
           \/ v.t = "list" /\ v.items # <<>> /\ v.items[Len(v.items)] = value

\* C11: set_fallback and include store a plain path string unchanged, store
\* `:name` for a Section named `name`, and for a Section without a name raise
\* a configuration error and leave the store as it was; no other key changes.
C11_LinkTargetStored ==
    last.op \in {"set_fallback", "include"}
    => LET t == last.a.target
           key == LinkKey(last.op)
       IN /\ t.t = "str"
               => err = "" /\ Holds(opts["A"], heap, key, t)
          /\ (t.t = "section" /\ t.name # None)
               => err = "" /\ Holds(opts["A"], heap, key, Str(":" \o t.name.s))
          /\ (t.t = "section" /\ t.name = None)
               => /\ err = "ConfigurationError"
                  /\ opts = pre.opts /\ heap = pre.heap
          /\ Others(opts["A"], heap, key) = Others(pre.opts["A"], pre.heap, key)

\* include of an unnamed Section raised, on a store that already holds the
\* reference to a named one
C11_Witness ==
    /\ last.op = "include" /\ last.a.target = SectionNamed(None)
    /\ err = "ConfigurationError"
    /\ Holds(opts["A"], heap, "fallback-config", Str(":here"))
    /\ opts = pre.opts

(***************************************************************************)
(* Option groups of a Section: the Options descriptor, construction,       *)
(* set_basic_params and the call form (SpecOptions).                       *)
(***************************************************************************)
MaxOptionCalls == 3

\* the keyword arguments of a call: the parameters Applications.set_basic_params
\* declares (None when not passed) and the names of the other keys passed
NoArgs ==
    [exit_if_none |-> None, max_per_worker |-> None, single_interpreter |-> None,
     no_default |-> None, extra |-> {}]

KwArgs ==
    {NoArgs,
     [NoArgs EXCEPT !.exit_if_none = Bool(TRUE)],
     [NoArgs EXCEPT !.max_per_worker = PyInt(2), !.no_default = Bool(FALSE)],
     [NoArgs EXCEPT !.extra = {"dummy_key"}],
     [NoArgs EXCEPT !.exit_if_none = Bool(TRUE), !.extra = {"dummy_key"}]}

\* a group class, a group instance, a Section object, as return values
Class(type) == [t |-> "class", name |-> type]
Obj(id) == [t |-> "obj", id |-> id]
SectionObj(sec) == [t |-> "sectionobj", sec |-> sec]

\* set_basic_params as the class `type` defines it, on g = [st, oo, objects, ret]:
\* Applications declares four parameters and no **kwargs; Routing inherits
\* OptionsGroup.set_basic_params(*args, **kwargs).  Returns self._section.
set_basic_params(g, type, section, kw) ==
    IF type = "Applications"
    THEN IF kw.extra # {} THEN [g EXCEPT !.st = Raise(@, "TypeError"), !.ret = None]
         ELSE [g EXCEPT !.st = Applications_set_basic_params(@, OptionsGroupDefaults, kw),
                        !.ret = SectionObj(section)]
    ELSE [g EXCEPT !.ret = SectionObj(section)]

\* the end of OptionsGroup.__init__, once its set_basic_params call left g1:
\* the new instance exists unless the call raised
NewInstance(g1, type, section) ==
    IF g1.st.err # "" THEN g1
    ELSE [g1 EXCEPT !.objects = Append(@, [type |-> type, section |-> section]),
                    !.ret = Obj(Len(g1.objects) + 1)]

OptionsGroup__init__NoForward(g, type, section, kw) ==
    NewInstance(set_basic_params(g, type, section, NoArgs), type, section)

\* OptionsGroup.__init__: type(_section=section, **kw); the new instance is
\* the value of the expression
OptionsGroup__init__(g, type, section, kw) ==
    NewInstance(set_basic_params(g, type, section, kw), type, section)

\* section._options_objects[key] = options_obj; return options_obj
CacheStore(g1, type) == [g1 EXCEPT !.oo[type] = g1.ret.id]

Options__get__AlwaysNew(g, type, section) ==
    IF section = None THEN [g EXCEPT !.ret = Class(type)]
    ELSE CacheStore(OptionsGroup__init__(g, type, section.sec, NoArgs), type)

\* Options.__get__(section, section_cls); section is None on class access
Options__get__(g, type, section) ==
    IF section = None THEN [g EXCEPT !.ret = Class(type)]
    ELSE CacheStore(IF g.oo[type] = 0
                    THEN OptionsGroup__init__(g, type, section.sec, NoArgs)
                    ELSE [g EXCEPT !.ret = Obj(g.oo[type])],
                    type)

\* OptionsGroup.__call__
OptionsGroup__call__(g, type, section, kw) == set_basic_params(g, type, section, kw)

\* the state an expression on the Section sec starts from
G(sec) == [st |-> St(sec), oo |-> options_objects[sec], objects |-> objects, ret |-> None]

\* the Section the group instance g1.ret is bound to (self._section)
_section(g1) == g1.objects[g1.ret.id].section

\* set_basic_params and __call__ on the instance an access returned in g1
BoundSetBasicParams(g1, type, kw) == set_basic_params(g1, type, _section(g1), kw)

BoundCall(g1, type, kw) == OptionsGroup__call__(g1, type, _section(g1), kw)

\* the three forms of passing basic parameters to a group of the Section sec
Form(form, g, type, sec, kw) ==
    CASE form = "__init__" -> OptionsGroup__init__(g, type, sec, kw)
      [] form = "set_basic_params" ->
            BoundSetBasicParams(Options__get__(g, type, SectionObj(sec)), type, kw)
      [] form = "__call__" ->
            BoundCall(Options__get__(g, type, SectionObj(sec)), type, kw)

\* the expression `op` on the Section sec, with group class and arguments,
\* ended in r
CommitG(op, sec, type, a, r) ==
    /\ sec \in alive
    /\ opts' = [opts EXCEPT ![sec] = r.st.opts]
    /\ heap' = r.st.heap
    /\ nk' = r.st.nk
    /\ err' = r.st.err
    /\ options_objects' = [options_objects EXCEPT ![sec] = r.oo]
    /\ objects' = r.objects
    /\ got' = r.ret
    /\ last' = [op |-> op, sec |-> sec, type |-> type, a |-> a,
                oo |-> options_objects, nobj |-> Len(objects)]
    /\ pre' = [opts |-> opts, heap |-> heap]
    /\ calls' = calls + 1
    /\ UNCHANGED <<alive, parent, embedded, members, fmt, signalling, mules,
                    registered_routes>>

\* section.applications, section.routing
GetGroup ==
    /\ calls < MaxOptionCalls
    /\ \E sec \in alive, type \in GroupTypes :
        CommitG("get", sec, type, NoArgs, Options__get__(G(sec), type, SectionObj(sec)))

\* Section.applications, Section.routing
GetGroupOnClass ==
    /\ calls < MaxOptionCalls
    /\ \E type \in GroupTypes :
        CommitG("get_class", "A", type, NoArgs, Options__get__(G("A"), type, None))

\* Applications(_section=section, **kw)
Construct ==
    /\ calls < MaxOptionCalls
    /\ \E type \in GroupTypes, kw \in KwArgs :
        CommitG("__init__", "A", type, kw, Form("__init__", G("A"), type, "A", kw))

\* section.applications.set_basic_params(**kw)
SetBasicParamsOnBound ==
    /\ calls < MaxOptionCalls
    /\ \E type \in GroupTypes, kw \in KwArgs :
        CommitG("set_basic_params", "A", type, kw,
                Form("set_basic_params", G("A"), type, "A", kw))

\* section.applications(**kw)
CallGroup ==
    /\ calls < MaxOptionCalls
    /\ \E type \in GroupTypes, kw \in KwArgs :
        CommitG("__call__", "A", type, kw, Form("__call__", G("A"), type, "A", kw))

NextOptions ==
    GetGroup \/ GetGroupOnClass \/ Construct \/ SetBasicParamsOnBound \/ CallGroup
    \/ NewSection

SpecOptions == Init /\ [][NextOptions]_vars

\* C12: a Section's cache holds for each group type at most one instance, of
\* that type and bound to that Section; the first access creates it, a later
\* access returns that same instance and creates none, an entry of the cache
\* is never replaced; access through the class returns the class and changes
\* nothing.
C12_OneCachedInstancePerType ==
    /\ \A s \in Sections, t \in GroupTypes :
        options_objects[s][t] # 0
          => /\ options_objects[s][t] \in 1..Len(objects)
             /\ objects[options_objects[s][t]] = [type |-> t, section |-> s]
    /\ last.op \in {"get", "get_class", "__init__", "set_basic_params", "__call__"}
         => \A s \in Sections, t \in GroupTypes :
                last.oo[s][t] # 0 => options_objects[s][t] = last.oo[s][t]
    /\ last.op = "get"
         => /\ err = ""
            /\ got = Obj(options_objects[last.sec][last.type])
            /\ got.id # 0
            /\ last.oo[last.sec][last.type] # 0 => Len(objects) = last.nobj
            /\ last.oo[last.sec][last.type] = 0
                 => (Len(objects) = last.nobj + 1 /\ got.id = Len(objects))
            /\ \A s \in Sections, t \in GroupTypes :
                   <<s, t>> # <<last.sec, last.type>>
                     => options_objects[s][t] = last.oo[s][t]
    /\ last.op = "get_class"
         => /\ err = ""
            /\ got = Class(last.type)
            /\ options_objects = last.oo
            /\ Len(objects) = last.nobj
            /\ opts = pre.opts /\ heap = pre.heap

\* both Sections hold a cached Applications group, each its own, and the last
\* access returned the one cached before
C12_Witness ==
    /\ last.op = "get" /\ last.sec = "B" /\ last.type = "Applications"
    /\ last.oo["B"]["Applications"] # 0
    /\ got = Obj(last.oo["B"]["Applications"])
    /\ options_objects["A"]["Applications"] # 0
    /\ options_objects["A"]["Applications"] # options_objects["B"]["Applications"]

\* the state the last expression started from (new keys get fresh identities)
GPre ==
    [st |-> [opts |-> pre.opts[last.sec], heap |-> pre.heap, nk |-> nk, err |-> "",
             embedded |-> embedded[last.sec]],
     oo |-> last.oo[last.sec], objects |-> SubSeq(objects, 1, last.nobj), ret |-> None]

Forms == {"__init__", "set_basic_params", "__call__"}

\* the expression r ended as the last expression did
SameOutcome(r, form) ==
    /\ Content(r.st.opts, r.st.heap) = Content(opts[last.sec], heap)
    /\ r.st.err = err
    /\ (form # "__init__" /\ err = "") => r.ret = SectionObj(last.sec)

\* C13: passing arguments to a group's initializer, to set_basic_params of
\* the bound group, or to the group called as a function ends in the same
\* store and the same error; set_basic_params and the call form both return
\* the owning Section.
C13_InitSetterCallEquivalent ==
    last.op \in Forms
    => /\ \A form \in Forms :
            SameOutcome(Form(form, GPre, last.type, last.sec, last.a), form)
       /\ (last.op # "__init__" /\ err = "") => got = SectionObj(last.sec)
       /\ (last.op = "__init__" /\ err = "")
            => (got.t = "obj" /\ objects[got.id] = [type |-> last.type, section |-> last.sec])

\* the call form set a flag on a store that already held entries, and
\* returned the Section
C13_Witness ==
    /\ last.op = "__call__" /\ last.type = "Applications"
    /\ last.a.exit_if_none = Bool(TRUE)
    /\ pre.opts["A"] # <<>>
    /\ Len(opts["A"]) > Len(pre.opts["A"])
    /\ got = SectionObj("A")

\* the expression r ended in the store the last expression ended in
SameStore(r) == Content(r.st.opts, r.st.heap) = Content(opts[last.sec], heap)

\* C14: constructing an option group with keyword arguments its
\* set_basic_params does not declare raises no error and ends in the store
\* the construction without those keys ends in.
C14_UnknownKeysIgnored ==
    (last.op = "__init__" /\ last.a.extra # {})
    => /\ err = ""
       /\ SameStore(Form("__init__", GPre, last.type, last.sec,
                           [last.a EXCEPT !.extra = {}]))

(***************************************************************************)
(* Routing: error pages (SpecRouting).                                     *)
(***************************************************************************)
MaxRoutingCalls == 2

\* the status codes set_error_page supports
statuses == <<403, 404, 500>>

\* the strings int() reads as a decimal number, with their value
DecimalStrings == [s \in {"404", "502"} |-> IF s = "404" THEN 404 ELSE 502]

\* int(status): the number, or the exception int() raises
int(status) ==
    CASE status.t = "int" -> [err |-> "", n |-> status.n]
      [] status.t = "str" /\ status.s \in DOMAIN DecimalStrings
           -> [err |-> "", n |-> DecimalStrings[status.s]]
      [] status.t = "str" -> [err |-> "ValueError", n |-> 0]
      [] OTHER -> [err |-> "TypeError", n |-> 0]

\* the path prefixes a caller passes, and whether one ends with the separator
PathPrefixes == {"/err", "/err/"}

EndsWithSep(p) == p = "/err/"

\* os.path.join(a, b) for a relative b
path_join(a, b) == IF EndsWithSep(a) THEN a \o b ELSE a \o "/" \o b

\* Routing.set_error_page
Routing_set_error_page(st, status, html_fpath) ==
    LET i == int(status)
    IN IF i.err # "" THEN Raise(st, i.err)
       ELSE IF \A j \in 1..Len(statuses) : statuses[j] # i.n
            THEN Raise(st, "ConfigurationError")
       ELSE _set(st, OptionsGroupDefaults,
                 [SetDefaults EXCEPT !.key = "error-page-" \o ToString(i.n),
                                     !.value = html_fpath, !.multi = TRUE])

RECURSIVE ErrorPagesLoop(_, _)
\* for code, filepath in codes_map.items(): self.set_error_page(code, filepath)
ErrorPagesLoop(st, items) ==
    IF items = <<>> \/ st.err # "" THEN st
    ELSE ErrorPagesLoop(Routing_set_error_page(st, Head(items).code, Head(items).path),
                        Tail(items))

\* Routing.set_error_pages; codes_map is None or the items of the dict
Routing_set_error_pages(st, codes_map, common_prefix) ==
    LET presumed == [j \in 1..Len(statuses) |->
                        [code |-> PyInt(statuses[j]),
                         path |-> Str(ToString(statuses[j]) \o ".html")]]
        map1 == IF Truthy(common_prefix) /\ ~Truthy(codes_map)
                THEN List(presumed) ELSE codes_map
        map2 == IF Truthy(common_prefix)
                THEN List([j \in 1..Len(map1.items) |->
                             [map1.items[j] EXCEPT
                                !.path = Str(path_join(common_prefix.s, @.s))]])
                ELSE map1
    IN IF map2 = None THEN Raise(st, "AttributeError")
       ELSE ErrorPagesLoop(st, map2.items)

StatusValues ==
    {PyInt(403), PyInt(404), PyInt(500), PyInt(400), Str("404"), Str("502"), Str("abc")}

SetErrorPage ==
    /\ calls < MaxRoutingCalls
    /\ \E status \in StatusValues, html_fpath \in {Str("/a.html"), Str("/b.html")} :
        LET a == [status |-> status, html_fpath |-> html_fpath]
        IN Commit("Routing.set_error_page", "A", OptionsGroupDefaults, a,
                  Routing_set_error_page(St("A"), status, html_fpath))

CodesMaps ==
    {None, List(<<[code |-> PyInt(404), path |-> Str("nf.html")]>>),
     List(<<[code |-> PyInt(500), path |-> Str("e.html")],
            [code |-> PyInt(400), path |-> Str("b.html")]>>)}

SetErrorPages ==
    /\ calls < MaxRoutingCalls
    /\ \E codes_map \in CodesMaps, common_prefix \in {None} \cup {Str(p) : p \in PathPrefixes} :
        LET a == [codes_map |-> codes_map, common_prefix |-> common_prefix]
        IN Commit("Routing.set_error_pages", "A", OptionsGroupDefaults, a,
                  Routing_set_error_pages(St("A"), codes_map, common_prefix))

\* _set(key, value) to fill the store
SetRoutingSeed == calls < MaxRoutingCalls /\ SetValue

NextRouting == SetErrorPage \/ SetErrorPages \/ SetRoutingSeed

SpecRouting == Init /\ [][NextRouting]_vars

\* the status is one of 403, 404, 500
Supported(n) == \E j \in 1..Len(statuses) : statuses[j] = n

\* C15: set_error_page raises ConfigurationError for a status other than
\* 403, 404, 500 and leaves the store unchanged; for a supported status it
\* leaves one entry error-page-<status>, whose list is the list held before
\* followed by the path, and the entries under other keys as they were.
C15_ErrorPageAppendsOrRaises ==
    (last.op = "Routing.set_error_page" /\ int(last.a.status).err = "")
    => LET n == int(last.a.status).n
           key == "error-page-" \o ToString(n)
           before == pre.opts["A"]
           old == IF Positions(before, key) = {} THEN <<>>
                  ELSE pre.heap[before[CHOOSE i \in Positions(before, key) : TRUE].v.r]
       IN /\ ~Supported(n)
               => (err = "ConfigurationError" /\ opts = pre.opts /\ heap = pre.heap)
          /\ Supported(n)
               => /\ err = ""
                  /\ Cardinality(Positions(opts["A"], key)) = 1
                  /\ \A i \in Positions(opts["A"], key) :
                         Content(opts["A"], heap)[i].v = List(old \o <<last.a.html_fpath>>)
                  /\ Others(opts["A"], heap, key) = Others(pre.opts["A"], pre.heap, key)

\* C16: set_error_pages without codes_map, with or without common_prefix,
\* raises no error and registers for each of 403, 404, 500 the page
\* <status>.html, joined to common_prefix when one is given.
C16_DefaultErrorPages ==
    (last.op = "Routing.set_error_pages" /\ last.a.codes_map = None)
    => /\ err = ""
       /\ \A j \in 1..Len(statuses) :
            LET name == ToString(statuses[j]) \o ".html"
            IN Holds(opts["A"], heap, "error-page-" \o ToString(statuses[j]),
                     Str(IF last.a.common_prefix = None THEN name
                         ELSE path_join(last.a.common_prefix.s, name)))

(***************************************************************************)
(* runtime.signals: Signal numbers (SpecSignals).                          *)
(***************************************************************************)
MaxSignals == 2
MaxRegistrations == 2

\* the signal numbers uWSGI has: range(0, 256)
SignalsTotal == 256

SignalNums == 0..(SignalsTotal - 1)

\* the lowest number of a non-empty set of numbers
Lowest(S) == CHOOSE n \in S : \A m \in S : n <= m

get_available_numFromOne(reg) ==
    IF (SignalNums \ {0}) \subseteq reg THEN [err |-> "UwsgiconfException", num |-> None]
    ELSE [err |-> "", num |-> PyInt(Lowest((SignalNums \ {0}) \ reg))]

\* signals.get_available_num, with reg the numbers uwsgi.signal_registered
\* answers true for
get_available_num(reg) ==
    IF SignalNums \subseteq reg THEN [err |-> "UwsgiconfException", num |-> None]
    ELSE [err |-> "", num |-> PyInt(Lowest(SignalNums \ reg))]

\* Signal.__init__: self.num = num or get_available_num()
Signal__init__(reg, num) ==
    IF Truthy(num) THEN [err |-> "", num |-> num] ELSE get_available_num(reg)

\* the signals registered when the process starts
RegisteredAtStart == {{}, {0}, SignalNums \ {SignalsTotal - 1}, SignalNums}

\* the numbers a caller passes to Signal()
SignalArgs == {None, PyInt(0), PyInt(1), PyInt(SignalsTotal - 1)}

\* what a signal action leaves alone
SignalFrame ==
    /\ pre' = [opts |-> opts, heap |-> heap]
    /\ UNCHANGED <<opts, alive, parent, embedded, heap, nk, calls, members, fmt>>
    /\ UNCHANGED <<groups, mules, registered_routes>>

\* sig = Signal(num)
NewSignal ==
    /\ Len(signals) < MaxSignals
    /\ \E num \in SignalArgs :
        LET r == Signal__init__(registered, num)
        IN /\ err' = r.err
           /\ signals' = IF r.err # "" THEN signals
                         ELSE Append(signals, [num |-> r.num.n, arg |-> num,
                                               seen |-> registered])
           /\ got' = IF r.err # "" THEN None ELSE r.num
           /\ last' = [op |-> "Signal", a |-> [num |-> num],
                       registered |-> registered, nreg |-> Len(registry_signals)]
    /\ UNCHANGED <<registered, registry_signals>>
    /\ SignalFrame

\* sig.register_handler(target)(func), sig(func)
RegisterHandler ==
    /\ Len(registry_signals) < MaxRegistrations
    /\ \E i \in 1..Len(signals), target \in {None, Str("mule")},
          func \in {f \in Funcs : f.name = "other"} :
        LET target1 == IF Truthy(target) THEN target ELSE Str("worker")
            sign_num == signals[i].num
        IN /\ registered' = registered \cup {sign_num}
           /\ registry_signals' =
                Append(registry_signals,
                       [num |-> sign_num, target |-> target1, func |-> func.id])
           /\ got' = [t |-> "func", id |-> func.id]
           /\ last' = [op |-> "register_handler", a |-> [sig |-> i, target |-> target],
                       registered |-> registered, nreg |-> Len(registry_signals)]
    /\ err' = ""
    /\ UNCHANGED signals
    /\ SignalFrame

\* get_available_num()
GetAvailableNum ==
    /\ LET r == get_available_num(registered)
       IN /\ err' = r.err
          /\ got' = r.num
    /\ last' = [op |-> "get_available_num", a |-> <<>>,
                registered |-> registered, nreg |-> Len(registry_signals)]
    /\ UNCHANGED <<registered, signals, registry_signals>>
    /\ SignalFrame

NextSignals == NewSignal \/ RegisterHandler \/ GetAvailableNum

InitSignals == InitBase({}) /\ registered \in RegisteredAtStart

SpecSignals == InitSignals /\ [][NextSignals]_vars

\* C17: a Signal constructed with an explicit number n in 0..255 has
\* num = n, whichever signals are registered.
C17_ExplicitNumberKept ==
    (last.op = "Signal" /\ last.a.num # None)
    => /\ err = ""
       /\ signals[Len(signals)].num = last.a.num.n

\* the Signals whose number was chosen automatically
Automatic == {i \in 1..Len(signals) : signals[i].arg = None}

\* C18: get_available_num returns the lowest number of 0..255 not registered
\* at the call and raises exactly when all are registered; constructing a
\* Signal registers nothing; two automatically numbered Signals differ only
\* if the number of the earlier one was registered before the later one was
\* constructed.
C18_LowestUnregisteredNumber ==
    /\ last.op = "get_available_num"
         => /\ registered = last.registered
            /\ (err = "UwsgiconfException") <=> (SignalNums \subseteq registered)
            /\ err = "" => /\ got.n \in SignalNums \ registered
                           /\ \A m \in SignalNums \ registered : got.n <= m
    /\ last.op = "Signal"
         => /\ registered = last.registered
            /\ Len(registry_signals) = last.nreg
            /\ (last.a.num = None /\ err = "")
                 => /\ signals[Len(signals)].num \in SignalNums \ registered
                    /\ \A m \in SignalNums \ registered : signals[Len(signals)].num <= m
            /\ last.a.num = None
                 => ((err = "UwsgiconfException") <=> (SignalNums \subseteq registered))
    /\ \A i, j \in Automatic :
         (i < j /\ signals[i].num # signals[j].num) => signals[i].num \in signals[j].seen

\* two Signal() objects got the same number, a handler registered through one
\* of them took the last free number, and get_available_num raised
C18_Witness ==
    /\ last.op = "get_available_num" /\ err = "UwsgiconfException"
    /\ registry_signals # <<>>
    /\ \E i, j \in Automatic : i < j /\ signals[i].num = signals[j].num

(***************************************************************************)
(* runtime.mules: offloading a function to a mule (SpecMules).             *)
(***************************************************************************)
MaxDecorations == 2
MaxSends == 2

\* a Mule, a Farm, raw bytes
Mule(id) == [t |-> "mule", id |-> id]
Farm(name) == [t |-> "farm", name |-> name]
Bytes(raw) == [t |-> "bytes", raw |-> raw]

\* pickle.dumps(value)
pickle_dumps(value) == [t |-> "bytes", pickled |-> value]

\* pickle.loads(message): the value, or the exception for bytes that are no pickle
pickle_loads(message) ==
    IF "pickled" \in DOMAIN message THEN [err |-> "", value |-> message.pickled]
    ELSE [err |-> "UnpicklingError", value |-> None]

\* mule_offload(mule_or_farm): the target the decorator keeps
mule_offload_target(mule_or_farm) ==
    LET m == CASE mule_or_farm.t = "mule" -> mule_or_farm.id
               [] mule_or_farm.t = "farm" -> mule_or_farm.name
               [] OTHER -> mule_or_farm
    IN IF Truthy(m) THEN m ELSE PyInt(0)

\* mule_offload(mule_or_farm)(func): registers func under its name and
\* returns partial(__offload, func_name, mule_or_farm)
mule_offload_(registry, func, mule_or_farm) ==
    [registry |-> [registry EXCEPT ![func.name] = func.id],
     wrapper |-> [func_name |-> func.name,
                  mule_or_farm |-> mule_offload_target(mule_or_farm),
                  of |-> func.id]]

\* __offload(func_name, mule_or_farm, *args, **kwargs): the message and its receiver
offload(func_name, mule_or_farm, args, kwargs) ==
    [to |-> mule_or_farm,
     body |-> pickle_dumps(Tuple(<<Str("uwcf"), Str(func_name), args, kwargs>>))]

\* _mule_messages_hook(message): the function it runs with its arguments,
\* or nothing
mule_messages_hook(registry, message) ==
    LET loaded == pickle_loads(message)
    IN IF loaded.err # "" THEN [ran |-> FALSE]
       ELSE IF loaded.value.t # "tuple" THEN [ran |-> FALSE]
       ELSE [ran |-> TRUE, func |-> registry[loaded.value.items[2].s],
             args |-> loaded.value.items[3], kwargs |-> loaded.value.items[4]]

\* what a mule action leaves alone
MuleFrame ==
    /\ pre' = [opts |-> opts, heap |-> heap]
    /\ UNCHANGED <<opts, alive, parent, embedded, heap, nk, members, fmt>>
    /\ UNCHANGED <<groups, signalling, registered_routes>>

\* the targets a decorator is given; Mule(1).offload() is mule_offload(Mule(1))
OffloadTargets == {None, PyInt(2), Mule(PyInt(1)), Farm(Str("farm1"))}

\* @mule_offload(mule_or_farm) / @mule.offload() / @farm.offload() on func
Decorate ==
    /\ Len(wrappers) < MaxDecorations
    /\ \E func \in Funcs, mule_or_farm \in OffloadTargets :
        LET r == mule_offload_(offloaded_functions, func, mule_or_farm)
        IN /\ offloaded_functions' = r.registry
           /\ wrappers' = Append(wrappers, r.wrapper)
           /\ got' = [t |-> "wrapper", id |-> Len(wrappers) + 1]
           /\ last' = [op |-> "mule_offload", a |-> [func |-> func.id,
                                                     mule_or_farm |-> mule_or_farm]]
    /\ err' = ""
    /\ UNCHANGED <<messages, runs, calls>>
    /\ MuleFrame

\* the arguments of a call
CallArgs == {Tuple(<<>>), Tuple(<<PyInt(1)>>)}
CallKwargs == {<<>>, <<[name |-> "x", value |-> PyInt(2)]>>}

\* wrapper(*args, **kwargs)
CallWrapper ==
    /\ calls < MaxSends
    /\ \E w \in 1..Len(wrappers), args \in CallArgs, kwargs \in CallKwargs :
        LET m == offload(wrappers[w].func_name, wrappers[w].mule_or_farm, args,
                         [t |-> "dict", items |-> kwargs])
        IN /\ messages' = Append(messages, [to |-> m.to, body |-> m.body,
                                            by |-> wrappers[w].of])
           /\ last' = [op |-> "wrapper", a |-> [w |-> w, args |-> args, kwargs |-> kwargs],
                       nmsg |-> Len(messages)]
    /\ got' = None
    /\ err' = ""
    /\ calls' = calls + 1
    /\ UNCHANGED <<offloaded_functions, wrappers, runs>>
    /\ MuleFrame

\* another sender's message: bytes that are no pickle, or a pickled string
ForeignMessage ==
    /\ calls < MaxSends
    /\ \E body \in {Bytes("ping"), pickle_dumps(Str("ping"))} :
        /\ messages' = Append(messages, [to |-> PyInt(0), body |-> body, by |-> 0])
        /\ last' = [op |-> "mule_msg", a |-> [body |-> body], nmsg |-> Len(messages)]
    /\ got' = None
    /\ err' = ""
    /\ calls' = calls + 1
    /\ UNCHANGED <<offloaded_functions, wrappers, runs>>
    /\ MuleFrame

\* uWSGI hands a message to uwsgi.mule_msg_hook in the mule
Deliver ==
    /\ \E i \in 1..Len(messages) :
        LET r == mule_messages_hook(offloaded_functions, messages[i].body)
        IN /\ messages' = SubSeq(messages, 1, i - 1) \o SubSeq(messages, i + 1, Len(messages))
           /\ runs' = IF r.ran
                      THEN Append(runs, [func |-> r.func, args |-> r.args,
                                         kwargs |-> r.kwargs])
                      ELSE runs
           /\ last' = [op |-> "hook", a |-> messages[i], nruns |-> Len(runs)]
    /\ got' = None
    /\ err' = ""
    /\ UNCHANGED <<offloaded_functions, wrappers, calls>>
    /\ MuleFrame

NextMules == Decorate \/ CallWrapper \/ ForeignMessage \/ Deliver

SpecMules == Init /\ [][NextMules]_vars

\* C19: calling the wrapper of a decorated function f sends exactly one
\* message, to the mule or farm chosen at decoration (mule 0 when none), and
\* the hook, given that message, runs f itself once with the arguments of
\* the call, whatever was decorated in between.
C19_OffloadRunsDecoratedFunction ==
    /\ last.op = "wrapper"
         => /\ Len(messages) = last.nmsg + 1
            /\ messages[Len(messages)].to = wrappers[last.a.w].mule_or_farm
            /\ messages[Len(messages)].by = wrappers[last.a.w].of
    /\ (last.op = "hook" /\ last.a.by # 0)
         => /\ Len(runs) = last.nruns + 1
            /\ runs[Len(runs)].func = last.a.by
            /\ runs[Len(runs)].args = last.a.body.pickled.items[3]
            /\ runs[Len(runs)].kwargs = last.a.body.pickled.items[4]

(***************************************************************************)
(* Key substitution by a ParametrizedValue (SpecKey).                      *)
(***************************************************************************)
MaxKeyCalls == 3

\* _set(key, value, multi=...) with a ParametrizedValue: one without and one
\* with an opt_key
SetParametrized ==
    /\ calls < MaxKeyCalls
    /\ \E key \in {"k1", "rk"}, v \in {PV(1), PV(3)}, m \in BOOLEAN :
        Set("A", SectionGroup, [SetDefaults EXCEPT !.key = key, !.value = v, !.multi = m])

\* _set(key, value, priority=p) with a ParametrizedValue
SetParametrizedPriority ==
    /\ calls < MaxKeyCalls
    /\ \E v \in {PV(1), PV(3)}, p \in {0, 1} :
        Set("A", SectionGroup,
            [SetDefaults EXCEPT !.key = "k1", !.value = v, !.priority = PyInt(p)])

\* _set(key, value) to fill the store
SetKeySeed == calls < MaxKeyCalls /\ SetValue

NextKey == SetParametrized \/ SetParametrizedPriority \/ SetKeySeed

SpecKey == Init /\ [][NextKey]_vars

\* the key strings of a store
KeysOf(d) == {KeyStr(d[i].k) : i \in 1..Len(d)}

\* the entries whose key reads `key`, in order
Under(d, h, key) == SelectSeq(Content(d, h), LAMBDA e : e.key = key)

MaxMergeCalls == 2

\* the ParametrizedValue that carries _opts, and the shapes it is passed in:
\* alone, inside a tuple, as an element of a multi list
WithOpts == PV(4)

MergeShapes ==
    {[value |-> WithOpts, multi |-> FALSE],
     [value |-> WithOpts, multi |-> TRUE],
     [value |-> Tuple(<<WithOpts, Str("a")>>), multi |-> FALSE],
     [value |-> Tuple(<<WithOpts, Str("a")>>), multi |-> TRUE],
     [value |-> List(<<Str("a"), WithOpts>>), multi |-> TRUE]}

\* _set(key, value, multi=...) with a value that carries _opts
SetWithOpts ==
    /\ calls < MaxMergeCalls
    /\ \E key \in Keys, s \in MergeShapes :
        Set("A", SectionGroup,
            [SetDefaults EXCEPT !.key = key, !.value = s.value, !.multi = s.multi])

\* _set(key, value, multi=..., priority=p) with a value that carries _opts
SetWithOptsPriority ==
    /\ calls < MaxMergeCalls
    /\ \E s \in MergeShapes, p \in 0..MaxPriority :
        Set("A", SectionGroup,
            [SetDefaults EXCEPT !.key = "k1", !.value = s.value, !.multi = s.multi,
                                !.priority = PyInt(p)])

\* _set(key, value) to fill the store
SetMergeSeed == calls < MaxMergeCalls /\ SetValue

NextMerge == SetWithOpts \/ SetWithOptsPriority \/ SetMergeSeed

SpecMerge == Init /\ [][NextMerge]_vars

\* the last call was a _set that stored a value carrying _opts
StoredWithOpts ==
    /\ Stored /\ last.a.cast = "none"
    /\ [value |-> last.a.value, multi |-> last.a.multi] \in MergeShapes

\* what the primary key's entry holds after such a call: the value, or the
\* joined string of a tuple
PrimaryValue(a) ==
    IF a.value.t = "tuple"
    THEN Str(Concat(Join([i \in 1..Len(a.value.items) |-> PyStr(a.value.items[i])], " ")))
    ELSE IF a.value.t = "list" THEN a.value.items[Len(a.value.items)]
    ELSE a.value

\* the store d holds the entry e: same key object, same value
HasEntry(d, e) == \E j \in 1..Len(d) : d[j].k = e.k /\ d[j].v = e.v

\* every entry of the sub-mapping sub is in the store d
Merged(d, sub) == \A i \in 1..Len(sub) : HasEntry(d, sub[i])

\* the entries of before whose key the sub-mapping does not name are in d
\* with their values
KeptOutside(d, h, before, hbefore, sub) ==
    \A j \in 1..Len(before) :
        (\A i \in 1..Len(sub) : ~KeyEq(sub[i].k, before[j].k))
        => \E n \in 1..Len(d) :
              d[n].k = before[j].k /\ Resolve(h, d[n].v) = Resolve(hbefore, before[j].v)

\* C21: after _set stored a ParametrizedValue carrying _opts (alone, in a
\* tuple, or as a multi element, with or without priority), the store holds
\* every key/value of those _opts and the primary key's entry, and the
\* entries the _opts do not name keep their values.
C21_SubMappingMerged ==
    StoredWithOpts
    => /\ err = ""
       /\ Merged(opts["A"], ParametrizedValues[WithOpts.id].opts)
       /\ Holds(opts["A"], heap, last.a.key, PrimaryValue(last.a))
       /\ KeptOutside(opts["A"], heap, pre.opts["A"], pre.heap,
                      ParametrizedValues[WithOpts.id].opts)

(***************************************************************************)
(* _set with a priority on a key that already has an entry (Spec).         *)
(***************************************************************************)
\* the last call was a _set with a priority, on a store that held exactly
\* one entry under the key
PriorityOnExisting ==
    /\ Stored /\ last.a.priority # None /\ last.a.cast = "none"
    /\ Cardinality(Positions(pre.opts[last.sec], last.a.key)) = 1

\* what that entry held before the call
ExistingValue ==
    LET i == CHOOSE i \in Positions(pre.opts[last.sec], last.a.key) : TRUE
    IN Resolve(pre.heap, pre.opts[last.sec][i].v)

\* the one entry the key has after the call, holding v
OneEntry(v) ==
    Under(opts[last.sec], heap, last.a.key) = <<[key |-> last.a.key, v |-> v]>>

\* C22: after _set with a priority on a key that already has an entry, the
\* call has not raised and the key's entry holds, with multi, the existing
\* list followed by the new values in order, and without multi the new
\* value in place of the existing one.
C22_PriorityCombinesWithExisting ==
    PriorityOnExisting
    => /\ err = ""
       /\ (last.a.multi /\ ExistingValue.t = "list")
            => OneEntry(List(ExistingValue.items \o listify(last.a.value)))
       /\ ~last.a.multi => OneEntry(last.a.value)

(***************************************************************************)
(* Routing: register_route and the order of the routing directives         *)
(* (SpecRoutes).                                                           *)
(***************************************************************************)
MaxRouteCalls == 2

\* RouteRule.stages: REQUEST, ERROR
stages == {"", "error"}

\* a built-in subject: its name and the regular expression it was given
SubjectBuiltin(name, regexp) == [t |-> "builtin", name |-> name, regexp |-> regexp]

\* ('%s-route-%s' % (stage, subject)).strip('-')
RouteCommand(stage, subject) ==
    Concat(Strip(<<stage, "-", "route", "-", subject>>, {"-"}))

\* RouteRule.__init__(action, subject, stage), for subject None or built-in
RouteRule__init__(action, subject, stage) ==
    [t |-> "rule",
     command_label |-> RouteCommand(stage, "label"),
     command |-> RouteCommand(stage, IF subject = None THEN "run" ELSE subject.name),
     value |-> Tuple(<<Str(IF subject = None THEN "" ELSE subject.regexp), action>>)]

RECURSIVE RouteLoop(_, _, _)
\* for route_rules in route_rules: self._set(command, value, multi=True)
RouteLoop(st, self, rules) ==
    IF rules = <<>> THEN st
    ELSE RouteLoop(_set(st, self, [SetDefaults EXCEPT !.key = Head(rules).command,
                                                     !.value = Head(rules).value,
                                                     !.multi = TRUE]),
                   self, Tail(rules))

\* if route_rules and label: self._set(route_rules[0].command_label, label, multi=True)
RouteLabel(st, self, rules, label) ==
    IF rules # <<>> /\ Truthy(label)
    THEN _set(st, self, [SetDefaults EXCEPT !.key = rules[1].command_label,
                                           !.value = label, !.multi = TRUE])
    ELSE st

Routing_register_routeLabelLast(st, self, route_rules, label) ==
    RouteLabel(RouteLoop(st, self, listify(route_rules)), self, listify(route_rules), label)

\* Routing.register_route
Routing_register_route(st, self, route_rules, label) ==
    RouteLoop(RouteLabel(st, self, listify(route_rules), label), self, listify(route_rules))

\* the rules a caller builds: an action without and one with a plugin, always
\* run or on a subject, at the request or the error stage
RouteSubjects ==
    {[subject |-> None, stage |-> ""],
     [subject |-> None, stage |-> "error"],
     [subject |-> SubjectBuiltin("uri", "^/a"), stage |-> ""],
     [subject |-> SubjectBuiltin("", "^/b"), stage |-> "error"]}

RouteRules ==
    {RouteRule__init__(action, s.subject, s.stage) : action \in {PV(1), PV(2)},
                                                     s \in RouteSubjects}

\* the rules passed in lists
ListedRules ==
    {RouteRule__init__(PV(1), None, ""), RouteRule__init__(PV(2), None, "error"),
     RouteRule__init__(PV(1), SubjectBuiltin("uri", "^/a"), "")}

\* route_rules: one rule, or a list of rules
RouteArgs ==
    RouteRules \cup {List(<<>>)} \cup {List(<<r1, r2>>) : r1, r2 \in ListedRules}

\* the directives a register_route call was given, in order: the label when
\* there is a rule and a label, then the rules
Given(rules, label) ==
    (IF rules # <<>> /\ Truthy(label)
     THEN <<[key |-> rules[1].command_label, value |-> label]>> ELSE <<>>)
    \o [i \in 1..Len(rules) |->
          [key |-> rules[i].command,
           value |-> Str(Concat(Join([j \in 1..Len(rules[i].value.items) |->
                                         PyStr(rules[i].value.items[j])], " ")))]]

\* the call register_route(route_rules, label) on the Section A ended in r
CommitRoute(a, r) ==
    /\ opts' = [opts EXCEPT !["A"] = r.opts]
    /\ heap' = r.heap
    /\ nk' = r.nk
    /\ err' = r.err
    /\ last' = [op |-> "register_route", sec |-> "A", self |-> OptionsGroupDefaults,
                a |-> a]
    /\ pre' = [opts |-> opts, heap |-> heap]
    /\ calls' = calls + 1
    /\ registered_routes' = registered_routes \o Given(listify(a.route_rules), a.label)
    /\ UNCHANGED <<alive, parent, embedded, members, fmt, groups, got, signalling, mules>>

\* section.routing.register_route(route_rules, label)
RegisterRoute ==
    /\ calls < MaxRouteCalls
    /\ \E route_rules \in RouteArgs, label \in {None, Str(""), Str("l1")} :
        CommitRoute([route_rules |-> route_rules, label |-> label],
                    Routing_register_route(St("A"), OptionsGroupDefaults,
                                           route_rules, label))

\* _set(key, value) to fill the store
SetRouteSeed == calls < MaxRouteCalls /\ SetValue

NextRoutes == RegisterRoute \/ SetRouteSeed

SpecRoutes == Init /\ [][NextRoutes]_vars

RECURSIVE Flatten(_)
Flatten(seqs) == IF seqs = <<>> THEN <<>> ELSE Head(seqs) \o Flatten(Tail(seqs))

\* the lines of an entry: one per element of a list, else one
Lines(e) ==
    IF e.v.t = "list" THEN [j \in 1..Len(e.v.items) |-> [key |-> e.key, value |-> e.v.items[j]]]
    ELSE <<[key |-> e.key, value |-> e.v]>>

\* the key = value lines a store is rendered to, in order
Emitted(d, h) == Flatten([i \in 1..Len(d) |-> Lines(Content(d, h)[i])])

\* the keys of the routing directives
RouteKeys == {r.command : r \in RouteRules} \cup {r.command_label : r \in RouteRules}

\* the routing directives among lines, in order
Directives(lines) == SelectSeq(lines, LAMBDA l : l.key \in RouteKeys)

\* C23: after any sequence of register_route calls the routing directives
\* are emitted in registration order: each call's label (when it has a rule
\* and a label, under the first rule's label command) and then its rules in
\* list order, after everything of the earlier calls.
C23_RoutesEmittedInRegistrationOrder ==
    /\ Directives(Emitted(opts["A"], heap)) = registered_routes
    /\ last.op = "register_route" => err = ""

\* two calls: a labelled list of two rules after a single rule, with the
\* plugin of an action activated in between
C23_Witness ==
    /\ last.op = "register_route"
    /\ last.a.label = Str("l1")
    /\ last.a.route_rules = List(<<RouteRule__init__(PV(1), None, ""),
                                   RouteRule__init__(PV(2), None, "error")>>)
    /\ Len(registered_routes) = 4
    /\ registered_routes[1].key = "route-run"
    /\ registered_routes[2] = [key |-> "route-label", value |-> Str("l1")]
    /\ registered_routes[4].key = "error-route-run"
    /\ Len(Emitted(opts["A"], heap)) > 4

====
